---- MODULE Spec2Model ----
(***************************************************************************)
(* Model of the askem retrieval helpers:                                   *)
(*   src/askem/retriever/base.py  get_documents, to_document               *)
(*   src/backend.py               compress, get_answer, to_embeddings,     *)
(*                                dot_score, summarize, prompt_sum         *)
(*                                                                         *)
(* Python values are modelled as follows.                                  *)
(*   Optional[T]  : None is <<>>, a present value v is <<v>>               *)
(*   dict         : a function whose DOMAIN is the set of keys present     *)
(*   list         : a sequence                                             *)
(*   raise / return : a record [kind |-> "raise" | "return", ...]          *)
(* The external services (vector database, chat completion API, model hub) *)
(* answer nondeterministically; their answer is an input of the action.    *)
(***************************************************************************)
EXTENDS Integers, Sequences, FiniteSets, TLC

VARIABLES
    pc,        \* position of the calling thread: "idle", "done", or inside compress
    last,      \* the call that was made last: its arguments and its outcome
    nloads,    \* number of from_pretrained weight loads so far, per model name
    cache,     \* model names whose weights the process keeps between calls
    chunks,    \* compress: the argument
    fut,       \* compress: state of the future of each chunk
    nsub,      \* compress: number of futures submitted so far
    results,   \* compress: the list collected by list(executor.map(...))
    order,     \* compress: the calls that ended, in the order they ended
    err        \* compress: the exception propagating out of the iteration, or None

vars == <<pc, last, nloads, cache, chunks, fut, nsub, results, order, err>>

compressVars == <<chunks, fut, nsub, results, order, err>>

---------------------------------------------------------------------------
(* Bounds of the model *)

MaxPassages == 2     \* longest data.Get.Passage list of a response
MaxChunks == 3       \* longest list handed to compress
MaxLoads == 2        \* weight loads counted per model name
MaxSentences == 2    \* longest sentence list handed to to_embeddings / summarize
MaxWorkers == 2      \* threads of the pool that run at the same time

---------------------------------------------------------------------------
(* Python helpers *)

None == <<>>

Some(v) == <<v>>

\* d[k] = v on a dict
SetItem(d, k, v) == (k :> v) @@ d

EmptyDict == [k \in {} |-> 0]

---------------------------------------------------------------------------
(* Input domains *)

Questions == {"q"}

TopKs == {1, 5}

Distances == {None, Some(0), Some(1)}

Topics == {None, Some(""), Some("covid")}

DocTypes == {None, Some("paragraph")}

PreprocessorIds == {None, Some("haystack_v0.0.2")}

PaperIdLists == {None, Some(<<>>), Some(<<"p1", "p2">>)}

Weights == {0, 1}

\* an optional concept with its weight; the weight is left at its default 1.0
\* when the concept is not given
Moves == {<<None, 1>>} \cup {<<Some("vaccine"), w>> : w \in Weights}

Entry(n) ==
    [paper_id |-> <<"paper", n>>,
     cosmos_object_id |-> <<"cosmos", n>>,
     preprocessor_id |-> <<"prep", n>>,
     topic |-> <<"topic", n>>,
     doc_type |-> <<"type", n>>,
     text_content |-> <<"text", n>>]
    @@ ("_additional" :> [distance |-> n])

Entries == {Entry(1), Entry(2)}

RECURSIVE SeqsUpTo(_, _)
SeqsUpTo(S, n) ==
    IF n = 0 THEN {<<>>}
    ELSE LET shorter == SeqsUpTo(S, n - 1)
         IN  shorter \cup {Append(s, x) : s \in shorter, x \in S}

PassageLists == SeqsUpTo(Entries, MaxPassages)

\* the JSON the vector database answers with: "errors" and "data" are each
\* present or absent
Responses ==
    LET errs == {EmptyDict, "errors" :> <<[message |-> "upstream failure"]>>}
        data == {EmptyDict} \cup
                {"data" :> [Get |-> [Passage |-> p]] : p \in PassageLists}
    IN  {e @@ d : e \in errs, d \in data}

---------------------------------------------------------------------------
(* src/askem/retriever/base.py *)

output_fields ==
    <<"paper_id", "cosmos_object_id", "preprocessor_id", "topic", "doc_type",
      "text_content">>

\* to_document with paper_id and cosmos_object_id taken from each other's key
to_document_swapped(result) ==
    [paper_id |-> result.cosmos_object_id,
     topic |-> result.topic,
     cosmos_object_id |-> result.paper_id,
     doc_type |-> result.doc_type,
     text |-> result.text_content,
     distance |-> result["_additional"].distance]

to_document(result) ==
    [paper_id |-> result.paper_id,
     topic |-> result.topic,
     cosmos_object_id |-> result.cosmos_object_id,
     doc_type |-> result.doc_type,
     text |-> result.text_content,
     distance |-> result["_additional"].distance]

\* where_operands with `if topic:` in place of `if topic is not None:`
where_operands_truthy(topic, doc_type, preprocessor_id, paper_ids) ==
    LET o1 == IF topic # None /\ topic[1] # ""
              THEN <<[path |-> <<"topic">>, operator |-> "Equal",
                      valueText |-> topic[1]]>>
              ELSE <<>>
        o2 == IF doc_type # None
              THEN Append(o1, [path |-> <<"doc_type">>, operator |-> "Equal",
                               valueText |-> doc_type[1]])
              ELSE o1
        o3 == IF preprocessor_id # None
              THEN Append(o2, [path |-> <<"preprocessor_id">>, operator |-> "Equal",
                               valueText |-> preprocessor_id[1]])
              ELSE o2
        o4 == IF paper_ids # None
              THEN Append(o3, [path |-> <<"paper_id">>, operator |-> "ContainsAny",
                               valueText |-> paper_ids[1]])
              ELSE o3
    IN  o4

\* lines 134-173: the operands appended to where_filter, in program order
where_operands(topic, doc_type, preprocessor_id, paper_ids) ==
    LET o1 == IF topic # None
              THEN <<[path |-> <<"topic">>, operator |-> "Equal",
                      valueText |-> topic[1]]>>
              ELSE <<>>
        o2 == IF doc_type # None
              THEN Append(o1, [path |-> <<"doc_type">>, operator |-> "Equal",
                               valueText |-> doc_type[1]])
              ELSE o1
        o3 == IF preprocessor_id # None
              THEN Append(o2, [path |-> <<"preprocessor_id">>, operator |-> "Equal",
                               valueText |-> preprocessor_id[1]])
              ELSE o2
        o4 == IF paper_ids # None
              THEN Append(o3, [path |-> <<"paper_id">>, operator |-> "ContainsAny",
                               valueText |-> paper_ids[1]])
              ELSE o3
    IN  o4

\* near_text_query with `if distance:` in place of `if distance is not None:`
near_text_query_truthy(question, distance, move_to, move_to_weight, move_away_from, move_away_from_weight) ==
    LET q0 == "concepts" :> <<question>>
        q1 == IF distance # None /\ distance[1] # 0
              THEN SetItem(q0, "distance", distance[1]) ELSE q0
        q2 == IF move_to # None
              THEN SetItem(q1, "moveTo",
                           [concepts |-> <<move_to[1]>>, force |-> move_to_weight])
              ELSE q1
        q3 == IF move_away_from # None
              THEN SetItem(q2, "moveAwayFrom",
                           [concepts |-> <<move_away_from[1]>>,
                            force |-> move_away_from_weight])
              ELSE q2
    IN  q3

\* lines 180-198: the near-text payload
near_text_query(question, distance, move_to, move_to_weight, move_away_from, move_away_from_weight) ==
    LET q0 == "concepts" :> <<question>>
        q1 == IF distance # None THEN SetItem(q0, "distance", distance[1]) ELSE q0
        q2 == IF move_to # None
              THEN SetItem(q1, "moveTo",
                           [concepts |-> <<move_to[1]>>, force |-> move_to_weight])
              ELSE q1
        q3 == IF move_away_from # None
              THEN SetItem(q2, "moveAwayFrom",
                           [concepts |-> <<move_away_from[1]>>,
                            force |-> move_away_from_weight])
              ELSE q2
    IN  q3

Step(m, a) == [method |-> m, arg |-> a]

\* lines 132-203: the builder calls made on the client, in program order
build_query(a) ==
    LET operands == where_operands(a.topic, a.doc_type, a.preprocessor_id, a.paper_ids)
        where_filter == [operator |-> "And", operands |-> operands]
        s0 == <<Step("get", <<"Passage", output_fields>>),
                Step("with_additional", <<"distance">>)>>
        s1 == IF operands # <<>> THEN Append(s0, Step("with_where", where_filter)) ELSE s0
        s2 == Append(s1, Step("with_near_text",
                              near_text_query(a.question, a.distance,
                                              a.move_to, a.move_to_weight,
                                              a.move_away_from, a.move_away_from_weight)))
    IN  s2 \o <<Step("with_limit", a.top_k), Step("do", <<>>)>>

HTTPException(status_code, detail) ==
    [kind |-> "raise", status_code |-> status_code, detail |-> detail]

Return(value) == [kind |-> "return", value |-> value]

\* handle_results with the no-results check ahead of the errors check
handle_results_data_first(res) ==
    IF "data" \notin DOMAIN res \/ res["data"].Get.Passage = <<>>
    THEN HTTPException(404, <<"No results found: ", res>>)
    ELSE IF "errors" \in DOMAIN res
    THEN HTTPException(500, res["errors"])
    ELSE LET passages == res["data"].Get.Passage
         IN  Return([i \in 1..Len(passages) |-> to_document(passages[i])])

\* handle_results without the test for an empty Passage list
handle_results_no_empty_check(res) ==
    IF "errors" \in DOMAIN res
    THEN HTTPException(500, res["errors"])
    ELSE IF "data" \notin DOMAIN res
    THEN HTTPException(404, <<"No results found: ", res>>)
    ELSE LET passages == res["data"].Get.Passage
         IN  Return([i \in 1..Len(passages) |-> to_document(passages[i])])

\* lines 207-219: what get_documents does with the response
handle_results(res) ==
    IF "errors" \in DOMAIN res
    THEN HTTPException(500, res["errors"])
    ELSE IF "data" \notin DOMAIN res \/ res["data"].Get.Passage = <<>>
    THEN HTTPException(404, <<"No results found: ", res>>)
    ELSE LET passages == res["data"].Get.Passage
         IN  Return([i \in 1..Len(passages) |-> to_document(passages[i])])

GetDocumentsArgs ==
    [question : Questions, top_k : TopKs, distance : Distances, topic : Topics,
     doc_type : DocTypes, preprocessor_id : PreprocessorIds, paper_ids : PaperIdLists]

NoCall == [fn |-> "none"]

GetDocuments ==
    /\ pc = "idle"
    /\ \E a \in GetDocumentsArgs, to \in Moves, away \in Moves, res \in Responses :
         LET args == a @@ [move_to |-> to[1], move_to_weight |-> to[2],
                           move_away_from |-> away[1], move_away_from_weight |-> away[2]]
         IN  last' = [fn |-> "get_documents", args |-> args,
                      query |-> build_query(args), response |-> res,
                      out |-> handle_results(res)]
    /\ pc' = "done"
    /\ UNCHANGED <<nloads, cache, compressVars>>

\* the caller takes the outcome and is ready for its next call; the locals of
\* the call that ended are gone
Consume ==
    /\ pc = "done"
    /\ pc' = "idle"
    /\ last' = NoCall
    /\ chunks' = <<>>
    /\ fut' = <<>>
    /\ nsub' = 0
    /\ results' = <<>>
    /\ order' = <<>>
    /\ err' = None
    /\ UNCHANGED <<nloads, cache>>

---------------------------------------------------------------------------
(* src/backend.py: chat completion *)

ChunkTexts == {"c1", "c2"}

ChunkLists == SeqsUpTo(ChunkTexts, MaxChunks)

ReplyTexts == {"r1", "r2"}

\* the answer of openai.ChatCompletion.create to `messages`; which text the
\* service replies with is its own choice
ChatCompletion(messages, text) ==
    [choices |-> <<[message |-> [content |-> [reply_to |-> messages, text |-> text]]]>>]

compress_instruction == "Summarize the upcoming passage into key points precisely."

\* _compress(chunk), given the reply the service chose
compress_one(chunk, text) ==
    LET response == ChatCompletion(<<[role |-> "system", content |-> compress_instruction],
                                     [role |-> "user", content |-> chunk]>>, text)
    IN  response.choices[1].message.content

answer_instruction ==
    "Study the upcoming passage carefully and answer the questions that follows."

get_answer(context, question, text) ==
    LET response ==
            ChatCompletion(
                <<[role |-> "system", content |-> answer_instruction],
                  [role |-> "user", content |-> <<context, "Do you understand the passage?">>],
                  [role |-> "user",
                   content |-> <<question, " Provide your answer in a precise and concise manner.">>]>>,
                text)
    IN  response.choices[1].message.content

\* an error raised by the API client inside call number i of the pool
APIError(i) == [type |-> "APIError", call |-> i]

Raise(e) == [kind |-> "raise", exception |-> e]

Indices == 1..Len(chunks)

InState(s) == {i \in Indices : fut[i].state = s}

\* with ThreadPoolExecutor() as executor: ... executor.map(_compress, chunks)
CompressCall ==
    /\ pc = "idle"
    /\ \E cs \in ChunkLists :
         /\ chunks' = cs
         /\ fut' = [i \in 1..Len(cs) |-> [state |-> "new"]]
         /\ last' = [fn |-> "compress", args |-> cs]
         /\ pc' = IF cs = <<>> THEN "collect" ELSE "submit"
    /\ nsub' = 0
    /\ results' = <<>>
    /\ order' = <<>>
    /\ err' = None
    /\ UNCHANGED <<nloads, cache>>

\* executor.map submits one future per chunk, in input order, before it
\* hands out any result
Submit ==
    /\ pc = "submit"
    /\ nsub' = nsub + 1
    /\ fut' = [fut EXCEPT ![nsub + 1] = [state |-> "pending"]]
    /\ pc' = IF nsub + 1 = Len(chunks) THEN "collect" ELSE "submit"
    /\ UNCHANGED <<last, nloads, cache, chunks, results, order, err>>

\* a pool thread takes the oldest work item that was not cancelled
WorkerStart(i) ==
    /\ pc \in {"submit", "collect", "shutdown"}
    /\ fut[i].state = "pending"
    /\ \A j \in InState("pending") : i <= j
    /\ Cardinality(InState("running")) < MaxWorkers
    /\ fut' = [fut EXCEPT ![i] = [state |-> "running"]]
    /\ UNCHANGED <<pc, last, nloads, cache, chunks, nsub, results, order, err>>

\* the _compress call of chunk i ends: it returns the reply or the API raises
WorkerFinish(i) ==
    /\ fut[i].state = "running"
    /\ \/ \E t \in ReplyTexts :
            fut' = [fut EXCEPT ![i] = [state |-> "finished",
                                       result |-> compress_one(chunks[i], t)]]
       \/ fut' = [fut EXCEPT ![i] = [state |-> "failed", exception |-> APIError(i)]]
    /\ order' = Append(order, i)
    /\ UNCHANGED <<pc, last, nloads, cache, chunks, nsub, results, err>>

\* next_future taking the futures in the order they completed (as_completed)
next_future_as_completed(fs, collected) ==
    IF pc = "collect" /\ Len(order) > Len(collected)
    THEN order[Len(collected) + 1] ELSE 0

\* result_iterator: the future the main thread takes next
next_future(fs, collected) == Len(collected) + 1

\* list(executor.map(...)): the main thread takes the results future by future
CollectResult ==
    /\ pc = "collect"
    /\ Len(results) < Len(chunks)
    /\ LET i == next_future(fut, results)
       IN  /\ i \in Indices
           /\ fut[i].state = "finished"
           /\ results' = Append(results, fut[i].result)
    /\ UNCHANGED <<pc, last, nloads, cache, chunks, fut, nsub, order, err>>

\* future.result() re-raises the call's exception; the iterator's finally
\* clause cancels the futures not yet taken, and the results so far are dropped
CollectRaise ==
    /\ pc = "collect"
    /\ Len(results) < Len(chunks)
    /\ LET i == next_future(fut, results)
       IN  /\ i \in Indices
           /\ fut[i].state = "failed"
           /\ err' = Some(fut[i].exception)
           /\ fut' = [j \in Indices |->
                        IF j > i /\ fut[j].state = "pending"
                        THEN [state |-> "cancelled"] ELSE fut[j]]
    /\ results' = <<>>
    /\ pc' = "shutdown"
    /\ UNCHANGED <<last, nloads, cache, chunks, nsub, order>>

CollectEnd ==
    /\ pc = "collect"
    /\ Len(results) = Len(chunks)
    /\ pc' = "shutdown"
    /\ UNCHANGED <<last, nloads, cache, compressVars>>

\* pool_joined for shutdown(wait=False): the with block is left at once
pool_not_joined(f) == TRUE

\* executor.__exit__ is shutdown(wait=True): it joins the pool's threads, which
\* end once no work item is left
pool_joined(f) == \A i \in DOMAIN f : f[i].state \notin {"pending", "running"}

\* leaving the with block, then `return results` or the propagating exception
CompressEnd ==
    /\ pc = "shutdown"
    /\ pool_joined(fut)
    /\ last' = last @@ [out |-> IF err # None THEN Raise(err[1]) ELSE Return(results)]
    /\ pc' = "done"
    /\ UNCHANGED <<nloads, cache, compressVars>>

Contexts == {"ctx"}

GetAnswer ==
    /\ pc = "idle"
    /\ \E c \in Contexts, q \in Questions :
         \/ \E t \in ReplyTexts :
              last' = [fn |-> "get_answer", args |-> <<c, q>>,
                       out |-> Return(get_answer(c, q, t))]
         \/ last' = [fn |-> "get_answer", args |-> <<c, q>>, out |-> Raise(APIError(0))]
    /\ pc' = "done"
    /\ UNCHANGED <<nloads, cache, compressVars>>

---------------------------------------------------------------------------
(* src/backend.py: local models *)

EmbeddingModel == "sentence-transformers/all-mpnet-base-v2"

T5Model == "google/long-t5-tglobal-base"

ModelNames == {EmbeddingModel, T5Model}

\* from_pretrained behind a process-wide cache: loaded on first use only
from_pretrained_cached(c, n, name) ==
    IF name \in c
    THEN [cache |-> c, nloads |-> n]
    ELSE [cache |-> c \cup {name}, nloads |-> [n EXCEPT ![name] = @ + 1]]

\* X.from_pretrained(name) inside a call: the weights are read into a local
\* variable of the call; `c` is what the process keeps between calls and `n`
\* counts the loads
from_pretrained(c, n, name) ==
    [cache |-> c, nloads |-> [n EXCEPT ![name] = @ + 1]]

Sentences == {"s1", "s2"}

SentenceLists == SeqsUpTo(Sentences, MaxSentences)

\* the pooled, normalised embedding the model computes for one sentence
Embedding(name, sentence) == [model |-> name, embeds |-> sentence]

ToEmbeddings ==
    /\ pc = "idle"
    /\ nloads[EmbeddingModel] < MaxLoads
    /\ \E ss \in SentenceLists \ {<<>>} :
         last' = [fn |-> "to_embeddings", args |-> <<ss, EmbeddingModel>>,
                  model |-> EmbeddingModel,
                  out |-> Return([i \in 1..Len(ss) |-> Embedding(EmbeddingModel, ss[i])])]
    /\ LET loaded == from_pretrained(cache, nloads, EmbeddingModel)
       IN  cache' = loaded.cache /\ nloads' = loaded.nloads
    /\ pc' = "done"
    /\ UNCHANGED compressVars

\* tensors of width 2: a vector (one dimension) or a matrix (two dimensions)
Vector(v) == [ndim |-> 1, data |-> v]

Matrix(rows) == [ndim |-> 2, data |-> rows]

\* the tensors the model calls dot_score with, by number
Tensor(n) ==
    CASE n = 1 -> Vector(<<1, 0>>)
      [] n = 2 -> Vector(<<1, 2>>)
      [] n = 3 -> Matrix(<<<<0, 1>>>>)
      [] OTHER -> Matrix(<<<<1, 0>>, <<1, 1>>>>)

TensorIds == 1..4

unsqueeze_if_vector(t) == IF t.ndim = 1 THEN <<t.data>> ELSE t.data

dot_score(a, b) ==
    LET x == unsqueeze_if_vector(a)
        y == unsqueeze_if_vector(b)
    IN  Matrix([i \in 1..Len(x) |->
                  [j \in 1..Len(y) |-> x[i][1] * y[j][1] + x[i][2] * y[j][2]]])

DotScore ==
    /\ pc = "idle"
    /\ \E m \in TensorIds, n \in TensorIds :
         LET a == Tensor(m)
             b == Tensor(n)
         IN  last' = [fn |-> "dot_score", args |-> <<a, b>>,
                      out |-> Return(dot_score(a, b))]
    /\ pc' = "done"
    /\ UNCHANGED <<nloads, cache, compressVars>>

\* '.'.join(sentences)
RECURSIVE join(_)
join(ss) ==
    IF ss = <<>> THEN <<>>
    ELSE IF Len(ss) = 1 THEN ss
    ELSE <<ss[1], ".">> \o join(Tail(ss))

\* _t5(x, model_name): the text the model generates for the prompt x
t5_generate(x, name) == [model |-> name, decoded_for |-> x]

\* summarize and prompt_sum both end in _t5, which loads the weights and generates
T5Call(fn, args, prompt) ==
    /\ pc = "idle"
    /\ nloads[T5Model] < MaxLoads
    /\ last' = [fn |-> fn, args |-> args, model |-> T5Model,
                out |-> Return(t5_generate(prompt, T5Model))]
    /\ LET loaded == from_pretrained(cache, nloads, T5Model)
       IN  cache' = loaded.cache /\ nloads' = loaded.nloads
    /\ pc' = "done"
    /\ UNCHANGED compressVars

\* the texts of the model hold no braces, so that str.format leaves the
\* template as it is
Summarize ==
    \E ss \in SentenceLists : T5Call("summarize", ss, <<"summarize: ">> \o join(ss))

PromptSum ==
    \E text \in Contexts, q \in Questions :
        T5Call("prompt_sum", <<text, q>>,
               <<"Based on the following context answer this question: ", q,
                 " Context: ", text>>)

---------------------------------------------------------------------------

Init ==
    /\ pc = "idle"
    /\ last = NoCall
    /\ nloads = [m \in ModelNames |-> 0]
    /\ cache = {}
    /\ chunks = <<>>
    /\ fut = <<>>
    /\ nsub = 0
    /\ results = <<>>
    /\ order = <<>>
    /\ err = None

Next ==
    \/ GetDocuments
    \/ CompressCall
    \/ Submit
    \/ \E i \in Indices : WorkerStart(i)
    \/ \E i \in Indices : WorkerFinish(i)
    \/ CollectResult
    \/ CollectRaise
    \/ CollectEnd
    \/ CompressEnd
    \/ GetAnswer
    \/ ToEmbeddings
    \/ DotScore
    \/ Summarize
    \/ PromptSum
    \/ Consume

Spec == Init /\ [][Next]_vars

---------------------------------------------------------------------------
(* Properties of get_documents *)

GetDocumentsDone == pc = "done" /\ last.fn = "get_documents"

HasErrors(res) == "errors" \in DOMAIN res

NoPassages(res) == "data" \notin DOMAIN res \/ res["data"].Get.Passage = <<>>

\* C1: whenever the response of the vector database has an "errors" entry,
\* get_documents raises HTTPException(500) whose detail is that entry and
\* returns no documents, also when the response carries passages.
C1_ErrorsForwarded ==
    (GetDocumentsDone /\ HasErrors(last.response)) =>
        /\ last.out.kind = "raise"
        /\ last.out.status_code = 500
        /\ last.out.detail = last.response["errors"]

C1_Witness ==
    /\ GetDocumentsDone
    /\ HasErrors(last.response)
    /\ ~NoPassages(last.response)
    /\ last.out.kind = "raise"
    /\ last.out.status_code = 500

\* the four filter arguments in program order, with the operand each one stands for
FilterArguments(a) ==
    <<[value |-> a.topic, path |-> <<"topic">>, operator |-> "Equal"],
      [value |-> a.doc_type, path |-> <<"doc_type">>, operator |-> "Equal"],
      [value |-> a.preprocessor_id, path |-> <<"preprocessor_id">>, operator |-> "Equal"],
      [value |-> a.paper_ids, path |-> <<"paper_id">>, operator |-> "ContainsAny"]>>

IsGiven(f) == f.value # None

GivenFilters(a) == SelectSeq(FilterArguments(a), IsGiven)

IsWhere(step) == step.method = "with_where"

WhereSteps(q) == SelectSeq(q, IsWhere)

\* C2: the where clause is an And of exactly one operand per filter argument
\* that is not None, in the order topic, doc_type, preprocessor_id, paper_id,
\* with the argument's value as valueText; with_where is called if and only
\* if at least one of the four arguments is not None.
C2_WhereClause ==
    GetDocumentsDone =>
        LET given == GivenFilters(last.args)
            where == WhereSteps(last.query)
        IN  /\ Len(where) = (IF given # <<>> THEN 1 ELSE 0)
            /\ given # <<>> =>
                 /\ where[1].arg.operator = "And"
                 /\ Len(where[1].arg.operands) = Len(given)
                 /\ \A i \in 1..Len(given) :
                      /\ where[1].arg.operands[i].path = given[i].path
                      /\ where[1].arg.operands[i].operator = given[i].operator
                      /\ where[1].arg.operands[i].valueText = given[i].value[1]
                      /\ DOMAIN where[1].arg.operands[i] = {"path", "operator", "valueText"}

C2_Witness ==
    /\ GetDocumentsDone
    /\ last.args.topic = Some("")
    /\ last.args.doc_type = None
    /\ last.args.preprocessor_id # None
    /\ last.args.paper_ids = Some(<<>>)
    /\ Len(WhereSteps(last.query)) = 1
    /\ Len(WhereSteps(last.query)[1].arg.operands) = 3

\* C3: a normal return holds one Document per entry of data.Get.Passage, in
\* the same order, each the field-for-field reshaping of its entry.
C3_Reshaping ==
    (GetDocumentsDone /\ last.out.kind = "return") =>
        LET passages == last.response["data"].Get.Passage
            docs == last.out.value
        IN  /\ Len(docs) = Len(passages)
            /\ \A i \in 1..Len(passages) :
                 /\ DOMAIN docs[i] = {"paper_id", "topic", "cosmos_object_id",
                                      "doc_type", "text", "distance"}
                 /\ docs[i].paper_id = passages[i].paper_id
                 /\ docs[i].topic = passages[i].topic
                 /\ docs[i].cosmos_object_id = passages[i].cosmos_object_id
                 /\ docs[i].doc_type = passages[i].doc_type
                 /\ docs[i].text = passages[i].text_content
                 /\ docs[i].distance = passages[i]["_additional"].distance

C3_Witness ==
    /\ GetDocumentsDone
    /\ last.out.kind = "return"
    /\ Len(last.out.value) = 2
    /\ last.response["data"].Get.Passage = <<Entry(2), Entry(1)>>
    /\ last.out.value[1].distance = 2

\* C6: get_documents never returns an empty list. Without "errors", a missing
\* "data" or an empty Passage list raises HTTPException(404); every other
\* error-free response returns at least one Document; each response ends in
\* exactly one of 500, 404 and a non-empty list.
C6_NoEmptyReturn ==
    GetDocumentsDone =>
        LET res == last.response
            out == last.out
            is500 == out.kind = "raise" /\ out.status_code = 500
            is404 == out.kind = "raise" /\ out.status_code = 404
            isList == out.kind = "return" /\ Len(out.value) >= 1
        IN  /\ (~HasErrors(res) /\ NoPassages(res)) => is404
            /\ (~HasErrors(res) /\ ~NoPassages(res)) => isList
            /\ is404 => out.detail[1] = "No results found: "
            /\ is500 \/ is404 \/ isList
            /\ is500 <=> HasErrors(res)
            /\ is404 <=> (~HasErrors(res) /\ NoPassages(res))

C6_Witness ==
    /\ GetDocumentsDone
    /\ ~HasErrors(last.response)
    /\ "data" \in DOMAIN last.response
    /\ last.response["data"].Get.Passage = <<>>
    /\ last.out.kind = "raise"
    /\ last.out.status_code = 404

Methods(q) == [i \in 1..Len(q) |-> q[i].method]

IsNearText(step) == step.method = "with_near_text"

IsLimit(step) == step.method = "with_limit"

\* C7: the near-text payload has concepts = [question]; a distance entry iff
\* distance is not None; moveTo / moveAwayFrom = {concepts: [c], force: w}
\* iff the concept is not None; the query is limited with top_k, and the
\* steps run in the order where-filter, near-text, limit, run.
C7_NearText ==
    GetDocumentsDone =>
        LET a == last.args
            q == last.query
            near == SelectSeq(q, IsNearText)
            limit == SelectSeq(q, IsLimit)
        IN  /\ Methods(q) \in
                 {<<"get", "with_additional", "with_near_text", "with_limit", "do">>,
                  <<"get", "with_additional", "with_where", "with_near_text",
                    "with_limit", "do">>}
            /\ limit[1].arg = a.top_k
            /\ LET p == near[1].arg
               IN  /\ DOMAIN p \subseteq {"concepts", "distance", "moveTo", "moveAwayFrom"}
                   /\ p["concepts"] = <<a.question>>
                   /\ ("distance" \in DOMAIN p) <=> (a.distance # None)
                   /\ (a.distance # None) => p["distance"] = a.distance[1]
                   /\ ("moveTo" \in DOMAIN p) <=> (a.move_to # None)
                   /\ (a.move_to # None) =>
                        p["moveTo"] = [concepts |-> <<a.move_to[1]>>,
                                       force |-> a.move_to_weight]
                   /\ ("moveAwayFrom" \in DOMAIN p) <=> (a.move_away_from # None)
                   /\ (a.move_away_from # None) =>
                        p["moveAwayFrom"] = [concepts |-> <<a.move_away_from[1]>>,
                                             force |-> a.move_away_from_weight]

C7_Witness ==
    /\ GetDocumentsDone
    /\ last.args.distance = Some(0)
    /\ last.args.move_to # None
    /\ last.args.move_to_weight = 0
    /\ last.args.move_away_from = None
    /\ last.args.topic # None
    /\ last.args.top_k = 1
    /\ DOMAIN last.query[4].arg = {"concepts", "distance", "moveTo"}

---------------------------------------------------------------------------
(* Properties of compress *)

CompressDone == pc = "done" /\ last.fn = "compress"

\* C4: when every call succeeds, compress returns a list as long as chunks
\* whose i-th element is the result of _compress on the i-th chunk, whatever
\* the order in which the workers finished.
C4_InputOrder ==
    CompressDone =>
        /\ (InState("finished") = Indices) => last.out.kind = "return"
        /\ last.out.kind = "return" =>
             /\ Len(last.out.value) = Len(chunks)
             /\ \A i \in Indices :
                  /\ fut[i].state = "finished"
                  /\ last.out.value[i] = fut[i].result
                  /\ last.out.value[i].reply_to[2].content = chunks[i]

C4_Witness ==
    /\ CompressDone
    /\ last.out.kind = "return"
    /\ Len(chunks) = 3
    /\ chunks[1] # chunks[2]
    /\ order = <<2, 3, 1>>

Min(S) == CHOOSE x \in S : \A y \in S : x <= y

\* C8: compress ends only after every _compress call a worker started has
\* ended; if any call raised, compress raises, with no partial list, the
\* error of the failing chunk of lowest index.
C8_JoinAndFirstError ==
    CompressDone =>
        /\ InState("running") = {}
        /\ InState("pending") = {}
        /\ InState("failed") # {} =>
             /\ last.out.kind = "raise"
             /\ DOMAIN last.out = {"kind", "exception"}
             /\ last.out.exception = fut[Min(InState("failed"))].exception
             /\ last.out.exception.call = Min(InState("failed"))
        /\ last.out.kind = "raise" => InState("failed") # {}

C8_Witness ==
    /\ CompressDone
    /\ Len(chunks) = 3
    /\ fut[1].state = "finished"
    /\ InState("failed") = {2, 3}
    /\ order = <<1, 3, 2>>
    /\ last.out.kind = "raise"
    /\ last.out.exception = APIError(2)

---------------------------------------------------------------------------
(* Statelessness *)

ModelFunctions == {"to_embeddings", "summarize", "prompt_sum"}

CallStep == pc = "idle" /\ pc' = "done"

====
